---- MODULE Spec2Model ----
(***************************************************************************)
(* src/shared/cryptsetup-util.c: the dlopen() gate in front of             *)
(* libcryptsetup, the log bridge, the minimal PBKDF policy and the LUKS2   *)
(* token helpers.  The file is modelled as built with HAVE_LIBCRYPTSETUP.  *)
(*                                                                         *)
(* C strings are sequences of one-character strings; a JSON variant is a   *)
(* record [k |-> kind, s |-> string, n |-> integer, e |-> elements]; a C   *)
(* int return value is an integer, negative for -errno.                    *)
(***************************************************************************)
EXTENDS Integers, Sequences, FiniteSets, TLC

(* ------------------------------------------------------------------ *)
(* errno values                                                        *)
(* ------------------------------------------------------------------ *)
ENOENT == 2
ENXIO == 6
ENOMEM == 12
EINVAL == 22
ENOSPC == 28
ERANGE == 34
EOPNOTSUPP == 95
EMEDIUMTYPE == 124
INT_MAX == 2147483647

(* ------------------------------------------------------------------ *)
(* bounds of the model                                                 *)
(* ------------------------------------------------------------------ *)
\* number of token slots of the LUKS2 header (crypt_token_max())
TokenMax == 2
\* dlopen_cryptsetup() calls explored while the library is not loaded
MaxGateCalls == 3
\* call-stack depth explored in the step-wise model of the recursion
MaxDepth == 6

(* ------------------------------------------------------------------ *)
(* C strings and pointers                                              *)
(* ------------------------------------------------------------------ *)
\* the NULL pointer where a JSON variant is expected
NULL == [k |-> "NULL", s |-> <<>>, n |-> 0, e |-> <<>>]
\* the NULL pointer where a C string is expected (no real string holds a
\* multi-character element)
NULLSTR == <<"NULL">>

Digits == {"0", "1", "2", "3", "4", "5", "6", "7", "8", "9"}

DigitVal(c) ==
  CASE c = "0" -> 0 [] c = "1" -> 1 [] c = "2" -> 2 [] c = "3" -> 3
    [] c = "4" -> 4 [] c = "5" -> 5 [] c = "6" -> 6 [] c = "7" -> 7
    [] c = "8" -> 8 [] c = "9" -> 9

DigitChar(d) ==
  CASE d = 0 -> "0" [] d = 1 -> "1" [] d = 2 -> "2" [] d = 3 -> "3"
    [] d = 4 -> "4" [] d = 5 -> "5" [] d = 6 -> "6" [] d = 7 -> "7"
    [] d = 8 -> "8" [] d = 9 -> "9"

streq_ptr(a, b) == a = b

K_type == <<"t", "y", "p", "e">>
K_keyslots == <<"k", "e", "y", "s", "l", "o", "t", "s">>

(* ------------------------------------------------------------------ *)
(* sd-json: the variant tree                                           *)
(* ------------------------------------------------------------------ *)
JStr(s) == [k |-> "string", s |-> s, n |-> 0, e |-> <<>>]
JInt(n) == [k |-> "integer", s |-> <<>>, n |-> n, e |-> <<>>]
JArr(e) == [k |-> "array", s |-> <<>>, n |-> 0, e |-> e]
\* the elements of an object are its keys (string variants) and values in
\* turn, in text order: key, value, key, value, ...
JObj(e) == [k |-> "object", s |-> <<>>, n |-> 0, e |-> e]

sd_json_variant_is_array(w) == w.k = "array"
sd_json_variant_is_string(w) == w.k = "string"

sd_json_variant_elements(w) ==
  IF w.k \in {"array", "object"} THEN Len(w.e) ELSE 0

sd_json_variant_by_index(w, i) ==
  IF w.k \in {"array", "object"} /\ i < Len(w.e) THEN w.e[i + 1] ELSE NULL

sd_json_variant_string(w) ==
  IF w.k = "string" THEN w.s ELSE NULLSTR

\* the value of the first field named key; NULL if v is no object or has none
sd_json_variant_by_key(v, key) ==
  IF v.k # "object" THEN NULL
  ELSE LET hits == {i \in 1..(Len(v.e) \div 2) :
                      streq_ptr(sd_json_variant_string(v.e[2 * i - 1]), key)}
       IN IF hits = {} THEN NULL
          ELSE v.e[2 * (CHOOSE i \in hits : \A j \in hits : i <= j)]

(* ------------------------------------------------------------------ *)
(* sd-json: compact text                                               *)
(* ------------------------------------------------------------------ *)
RECURSIVE NatText(_)
NatText(n) ==
  IF n < 10 THEN <<DigitChar(n)>>
  ELSE NatText(n \div 10) \o <<DigitChar(n % 10)>>

IntText(n) == IF n < 0 THEN <<"-">> \o NatText(0 - n) ELSE NatText(n)

RECURSIVE FormatValue(_)
RECURSIVE FormatElements(_, _)
RECURSIVE FormatFields(_, _)

FormatElements(e, i) ==
  IF i > Len(e) THEN <<>>
  ELSE (IF i > 1 THEN <<",">> ELSE <<>>)
       \o FormatValue(e[i]) \o FormatElements(e, i + 1)

FormatFields(e, i) ==
  IF i > Len(e) THEN <<>>
  ELSE (IF i > 1 THEN <<",">> ELSE <<>>)
       \o FormatValue(e[i]) \o <<":">> \o FormatValue(e[i + 1])
       \o FormatFields(e, i + 2)

FormatValue(v) ==
  CASE v.k = "string" -> <<"\"">> \o v.s \o <<"\"">>
    [] v.k = "integer" -> IntText(v.n)
    [] v.k = "array" -> <<"[">> \o FormatElements(v.e, 1) \o <<"]">>
    [] v.k = "object" -> <<"{">> \o FormatFields(v.e, 1) \o <<"}">>

\* a parse result: r = 0 and the variant v read up to (excluding) position p,
\* or r = -EINVAL
ParseFail == [r |-> 0 - EINVAL, v |-> NULL, p |-> 0]
ParseOk(v, p) == [r |-> 0, v |-> v, p |-> p]

At(t, p) == IF p >= 1 /\ p <= Len(t) THEN t[p] ELSE "EOF"

RECURSIVE ScanString(_, _)
\* position of the closing quote of the string whose body starts at p, 0 if none
ScanString(t, p) ==
  IF p > Len(t) THEN 0
  ELSE IF t[p] = "\"" THEN p
  ELSE ScanString(t, p + 1)

ParseString(t, p) ==
  IF At(t, p) # "\"" THEN ParseFail
  ELSE LET q == ScanString(t, p + 1)
       IN IF q = 0 THEN ParseFail
          ELSE ParseOk(JStr(SubSeq(t, p + 1, q - 1)), q + 1)

RECURSIVE ScanDigits(_, _)
\* first position at or after p that holds no digit
ScanDigits(t, p) ==
  IF At(t, p) \in Digits THEN ScanDigits(t, p + 1) ELSE p

RECURSIVE DigitsValue(_, _)
\* the number the digits s[1..n] denote, most significant first
DigitsValue(s, n) ==
  IF n = 0 THEN 0 ELSE 10 * DigitsValue(s, n - 1) + DigitVal(s[n])

ParseNumber(t, p) ==
  LET neg == At(t, p) = "-"
      b == IF neg THEN p + 1 ELSE p
      q == ScanDigits(t, b)
      n == DigitsValue(SubSeq(t, b, q - 1), q - b)
  IN IF q = b THEN ParseFail
     ELSE ParseOk(JInt(IF neg THEN 0 - n ELSE n), q)

RECURSIVE ParseValue(_, _)
RECURSIVE ParseElements(_, _, _)
RECURSIVE ParseFields(_, _, _)

\* the elements of an array from position p on, acc being those read so far
ParseElements(t, p, acc) ==
  LET e == ParseValue(t, p)
  IN IF e.r < 0 THEN ParseFail
     ELSE IF At(t, e.p) = "," THEN ParseElements(t, e.p + 1, Append(acc, e.v))
     ELSE IF At(t, e.p) = "]" THEN ParseOk(JArr(Append(acc, e.v)), e.p + 1)
     ELSE ParseFail

\* the fields of an object from position p on, acc being those read so far
ParseFields(t, p, acc) ==
  LET key == ParseString(t, p)
  IN IF key.r < 0 \/ At(t, key.p) # ":" THEN ParseFail
     ELSE LET e == ParseValue(t, key.p + 1)
              f == acc \o <<key.v, e.v>>
          IN IF e.r < 0 THEN ParseFail
             ELSE IF At(t, e.p) = "," THEN ParseFields(t, e.p + 1, f)
             ELSE IF At(t, e.p) = "}" THEN ParseOk(JObj(f), e.p + 1)
             ELSE ParseFail

ParseValue(t, p) ==
  LET c == At(t, p)
  IN CASE c = "\"" -> ParseString(t, p)
       [] c = "-" \/ c \in Digits -> ParseNumber(t, p)
       [] c = "[" ->
            IF At(t, p + 1) = "]" THEN ParseOk(JArr(<<>>), p + 2)
            ELSE ParseElements(t, p + 1, <<>>)
       [] c = "{" ->
            IF At(t, p + 1) = "}" THEN ParseOk(JObj(<<>>), p + 2)
            ELSE ParseFields(t, p + 1, <<>>)
       [] OTHER -> ParseFail

\* the whole text is one value
ParseText(text) ==
  LET e == ParseValue(text, 1)
  IN IF e.r < 0 \/ e.p # Len(text) + 1 THEN [r |-> 0 - EINVAL, v |-> NULL]
     ELSE [r |-> 0, v |-> e.v]

(* ------------------------------------------------------------------ *)
(* parse-util: safe_atoi                                               *)
(* ------------------------------------------------------------------ *)
RECURSIVE StrtolValue(_, _, _)
\* strtol() over the digits s[1..n] of a number of the given sign: the value,
\* or ok = FALSE once it leaves the range of an int
StrtolValue(s, n, neg) ==
  IF n = 0 THEN [ok |-> TRUE, i |-> 0]
  ELSE LET prev == StrtolValue(s, n - 1, neg)
           d == DigitVal(s[n])
           lim == INT_MAX \div 10
           last == IF neg THEN (INT_MAX % 10) + 1 ELSE INT_MAX % 10
           mag == IF neg THEN 0 - prev.i ELSE prev.i
       IN IF ~prev.ok THEN prev
          ELSE IF mag > lim \/ (mag = lim /\ d > last) THEN [ok |-> FALSE, i |-> 0]
          ELSE [ok |-> TRUE,
                i |-> IF neg THEN 10 * prev.i - d ELSE 10 * prev.i + d]

\* safe_atoi(s, &i): an optionally signed decimal integer that fills the
\* whole string and fits an int; r = 0 and the value, else -EINVAL / -ERANGE
safe_atoi(s) ==
  LET signed == Len(s) >= 1 /\ s[1] \in {"-", "+"}
      b == IF signed THEN 2 ELSE 1
      q == ScanDigits(s, b)
      l == StrtolValue(SubSeq(s, b, q - 1), q - b, signed /\ s[1] = "-")
  IN IF q = b \/ q # Len(s) + 1 THEN [r |-> 0 - EINVAL, i |-> 0]
     ELSE IF ~l.ok THEN [r |-> 0 - ERANGE, i |-> 0]
     ELSE [r |-> 0, i |-> l.i]

(* ------------------------------------------------------------------ *)
(* cryptsetup_get_keyslot_from_token                                   *)
(* ------------------------------------------------------------------ *)
\* takes the first keyslot of a token that names several
cryptsetup_get_keyslot_from_token_first(v) ==
  LET w == sd_json_variant_by_key(v, K_keyslots)
  IN IF w = NULL THEN 0 - ENOENT
     ELSE IF ~sd_json_variant_is_array(w) \/ sd_json_variant_elements(w) < 1
          THEN 0 - EMEDIUMTYPE
     ELSE LET w0 == sd_json_variant_by_index(w, 0)
          IN IF w0 = NULL THEN 0 - ENOENT
             ELSE IF ~sd_json_variant_is_string(w0) THEN 0 - EMEDIUMTYPE
             ELSE LET a == safe_atoi(sd_json_variant_string(w0))
                  IN IF a.r < 0 THEN a.r
                     ELSE IF a.i < 0 THEN 0 - EINVAL
                     ELSE a.i

cryptsetup_get_keyslot_from_token(v) ==
  LET w == sd_json_variant_by_key(v, K_keyslots)
  IN IF w = NULL THEN 0 - ENOENT
     ELSE IF ~sd_json_variant_is_array(w) \/ sd_json_variant_elements(w) # 1
          THEN 0 - EMEDIUMTYPE
     ELSE LET w0 == sd_json_variant_by_index(w, 0)
          IN IF w0 = NULL THEN 0 - ENOENT
             ELSE IF ~sd_json_variant_is_string(w0) THEN 0 - EMEDIUMTYPE
             ELSE LET a == safe_atoi(sd_json_variant_string(w0))
                  IN IF a.r < 0 THEN a.r
                     ELSE IF a.i < 0 THEN 0 - EINVAL
                     ELSE a.i

(* ------------------------------------------------------------------ *)
(* the values the model draws its inputs from                          *)
(* ------------------------------------------------------------------ *)
T_foo == <<"f", "o", "o">>
T_bar == <<"b", "a", "r">>

\* the token with the given "type" and "keyslots" values; NULL leaves the
\* field out
Token(type, keyslots) ==
  JObj((IF type = NULL THEN <<>> ELSE <<JStr(K_type), type>>)
       \o (IF keyslots = NULL THEN <<>> ELSE <<JStr(K_keyslots), keyslots>>))

TypeFields == {NULL, JStr(T_foo), JStr(T_bar), JInt(7)}

KeyslotsFields ==
  { NULL, JStr(<<"3">>), JInt(3), JArr(<<>>),
    JArr(<<JStr(<<"3">>)>>), JArr(<<JStr(<<"0">>)>>), JArr(<<JStr(<<"1", "2">>)>>),
    JArr(<<JStr(<<"3">>), JStr(<<"4">>)>>), JArr(<<JStr(<<"-", "1">>)>>),
    JArr(<<JStr(<<"x">>)>>), JArr(<<JStr(<<>>)>>), JArr(<<JStr(<<"3", "x">>)>>),
    JArr(<<JInt(3)>>), JArr(<<JArr(<<JStr(<<"3">>)>>)>>),
    JArr(<<JStr(<<"2", "1", "4", "7", "4", "8", "3", "6", "4", "8">>)>>) }

\* what cryptsetup_get_keyslot_from_token is applied to
KeyslotValues ==
  {Token(t, ks) : t \in TypeFields, ks \in KeyslotsFields}
    \cup {JArr(<<JStr(<<"3">>)>>), JStr(K_keyslots)}

\* what cryptsetup_add_token_json is given, and what the header holds at first
TokenValues ==
  { Token(JStr(T_foo), JArr(<<JStr(<<"3">>)>>)),
    Token(NULL, JArr(<<JStr(<<"-", "1">>)>>)),
    Token(JInt(7), JStr(<<"3">>)),
    JObj(<<JStr(<<"a">>), JArr(<<JInt(0 - 12), JArr(<<>>), JObj(<<>>)>>),
           JStr(K_type), JStr(<<>>)>>) }

\* no token at an index of the header
NoToken == <<>>
\* a header slot whose text is no JSON
BrokenText == <<"{">>
\* what a slot of the header may hold when the device is first seen
HeaderTexts ==
  { NoToken, BrokenText,
    FormatValue(Token(JStr(T_foo), JArr(<<JStr(<<"3">>)>>))),
    FormatValue(Token(NULL, JArr(<<JStr(<<"-", "1">>)>>))) }

\* the parse of every text and the text of every variant the model starts
\* from, computed once
ParsedTexts ==
  [t \in HeaderTexts \cup {FormatValue(v) : v \in TokenValues} |-> ParseText(t)]
FormattedValues == [v \in TokenValues |-> FormatValue(v)]

\* sd_json_parse(text, 0, &v, NULL, NULL)
sd_json_parse(text) ==
  IF text \in DOMAIN ParsedTexts THEN ParsedTexts[text] ELSE ParseText(text)

\* sd_json_variant_format(v, 0, &text): the text and its length, or -ENOMEM
\* when the allocation fails (oom)
sd_json_variant_format(v, oom) ==
  LET text == IF v \in DOMAIN FormattedValues THEN FormattedValues[v]
              ELSE FormatValue(v)
  IN IF oom THEN [r |-> 0 - ENOMEM, text |-> <<>>]
     ELSE [r |-> Len(text), text |-> text]

TokenIndices == 0..(TokenMax - 1)
VerifyTypes == {NULLSTR, T_foo, T_bar}

(* ------------------------------------------------------------------ *)
(* state                                                               *)
(* ------------------------------------------------------------------ *)
VARIABLES
  cryptsetup_dl,   \* the dlopen() handle of libcryptsetup.so.12, or "NULL"
  dl_error,        \* the loader's remembered failure, 0 if none
  attempts,        \* resolution attempts made (dlopen() + dlsym())
  gateCalls,       \* dlopen_cryptsetup() calls made while nothing was loaded
  firstFail,       \* what the first failed dlopen_cryptsetup() returned, 0 if none
  DEBUG_LOGGING,   \* the build option
  logging,         \* libcryptsetup's log callbacks and debug level
  hstate,          \* the struct crypt_device: "unbound" or "bound"
  tokens,          \* the token texts of the device's LUKS2 header
  pbkdf,           \* the PBKDF type set on the crypt_device
  last,            \* the last call: arguments, return value, backend calls
  stack            \* call stack of the step-wise model of the recursion

vars == <<cryptsetup_dl, dl_error, attempts, gateCalls, firstFail, DEBUG_LOGGING,
          logging, hstate, tokens, pbkdf, last, stack>>

LIBCRYPTSETUP == "libcryptsetup.so.12"

NoPbkdf == [hash |-> "", type |-> "", iterations |-> 0, flags |-> {}]

\* no call yet
NoCall ==
  [op |-> "none", gated |-> FALSE, gate |-> 0, ret |-> 0, out |-> NULL,
   calls |-> <<>>, cd |-> "NULL", idx |-> 0, verify_type |-> NULLSTR,
   want |-> FALSE, v |-> NULL, oom |-> FALSE]

\* one call of a libcryptsetup function: its name, what it returned, and the
\* text or PBKDF type handed to it
BackendCall(fn, r, text, pb) == [fn |-> fn, r |-> r, text |-> text, pbkdf |-> pb]

(* ------------------------------------------------------------------ *)
(* dlfcn-util: the loader                                              *)
(* ------------------------------------------------------------------ *)
\* what one resolution attempt can come to: 1 (library opened, every symbol
\* found), -EOPNOTSUPP (dlopen() failed), -ENXIO (a symbol is missing)
LoadOutcomes == {1, 0 - EOPNOTSUPP, 0 - ENXIO}

\* a loader that makes a new attempt on every call after a failure
dlopen_many_sym_or_warn_retry(dl, err, outcome) ==
  IF dl # "NULL" THEN [r |-> 0, dl |-> dl, err |-> err, tried |-> FALSE]
  ELSE IF outcome > 0
       THEN [r |-> 1, dl |-> LIBCRYPTSETUP, err |-> 0, tried |-> TRUE]
  ELSE [r |-> outcome, dl |-> "NULL", err |-> 0, tried |-> TRUE]

\* dlopen_many_sym_or_warn(&cryptsetup_dl, "libcryptsetup.so.12", ...): 0 when
\* the library is loaded already; else the remembered failure, if any; else
\* one resolution attempt, whose failure is remembered
dlopen_many_sym_or_warn(dl, err, outcome) ==
  IF dl # "NULL" THEN [r |-> 0, dl |-> dl, err |-> err, tried |-> FALSE]
  ELSE IF err # 0 THEN [r |-> err, dl |-> dl, err |-> err, tried |-> FALSE]
  ELSE IF outcome > 0
       THEN [r |-> 1, dl |-> LIBCRYPTSETUP, err |-> 0, tried |-> TRUE]
  ELSE [r |-> outcome, dl |-> "NULL", err |-> outcome, tried |-> TRUE]

(* ------------------------------------------------------------------ *)
(* libcryptsetup                                                       *)
(* ------------------------------------------------------------------ *)
CRYPT_DEBUG_LEVEL(debug) == IF debug THEN "CRYPT_DEBUG_ALL" ELSE "CRYPT_DEBUG_NONE"

\* crypt_set_log_callback(cd, cryptsetup_log_glue, NULL): per device, or the
\* default when cd is NULL
crypt_set_log_callback(lg, cd) ==
  IF cd = "NULL" THEN [lg EXCEPT !.dflt = "cryptsetup_log_glue"]
  ELSE [lg EXCEPT !.cd = "cryptsetup_log_glue"]

crypt_set_debug_level(lg, level) == [lg EXCEPT !.level = level]

\* crypt_token_json_get(cd, idx, &text): the index and the text, -EINVAL for
\* a device without header or an index out of range, -ENOENT for a free slot
crypt_token_json_get(hs, toks, idx) ==
  IF hs # "bound" \/ idx \notin TokenIndices THEN [r |-> 0 - EINVAL, text |-> <<>>]
  ELSE IF toks[idx] = NoToken THEN [r |-> 0 - ENOENT, text |-> <<>>]
  ELSE [r |-> idx, text |-> toks[idx]]

\* crypt_token_json_set(cd, CRYPT_ANY_TOKEN, text): stores the text in the
\* first free slot and returns its index; the header is left as it was when
\* the device has none, the text is refused (accept = FALSE) or no slot is free
crypt_token_json_set(hs, toks, text, accept) ==
  LET free == {i \in TokenIndices : toks[i] = NoToken}
  IN IF hs # "bound" \/ ~accept THEN [r |-> 0 - EINVAL, tokens |-> toks]
     ELSE IF free = {} THEN [r |-> 0 - ENOSPC, tokens |-> toks]
     ELSE LET i == CHOOSE i \in free : \A j \in free : i <= j
          IN [r |-> i, tokens |-> [toks EXCEPT ![i] = text]]

\* what crypt_set_pbkdf_type() may return
PbkdfResults == {0 - EINVAL, 0 - ENOMEM, 0, 1}

\* crypt_set_pbkdf_type(cd, &pbkdf): rb is what the library returns
crypt_set_pbkdf_type(pb, policy, rb) ==
  [r |-> rb, pbkdf |-> IF rb >= 0 THEN policy ELSE pb]

(* ------------------------------------------------------------------ *)
(* cryptsetup-util.c, each function as a whole                         *)
(* ------------------------------------------------------------------ *)
\* dlopen_cryptsetup() with the call of cryptsetup_enable_logging(NULL) it
\* makes after a first load (whose own dlopen_cryptsetup() returns 0)
dlopen_cryptsetup(dl, err, lg, debug, outcome) ==
  LET l == dlopen_many_sym_or_warn(dl, err, outcome)
  IN IF l.r <= 0 THEN [r |-> l.r, dl |-> l.dl, err |-> l.err, tried |-> l.tried,
                       logging |-> lg]
     ELSE [r |-> 1, dl |-> l.dl, err |-> l.err, tried |-> l.tried,
           logging |-> crypt_set_debug_level(crypt_set_log_callback(lg, "NULL"),
                                             CRYPT_DEBUG_LEVEL(debug))]

\* cryptsetup_enable_logging(cd), given what its dlopen_cryptsetup() returned
\* and left as log state
cryptsetup_enable_logging(g, cd, debug) ==
  IF g.r < 0 THEN g.logging
  ELSE crypt_set_debug_level(crypt_set_log_callback(g.logging, cd),
                             CRYPT_DEBUG_LEVEL(debug))

\* a policy that lets libcryptsetup benchmark
minimal_pbkdf_benchmarked ==
  [hash |-> "sha512", type |-> "pbkdf2", iterations |-> 1000, flags |-> {}]

minimal_pbkdf ==
  [hash |-> "sha512", type |-> "pbkdf2", iterations |-> 1000,
   flags |-> {"CRYPT_PBKDF_NO_BENCHMARK"}]

\* cryptsetup_set_minimal_pbkdf(cd), gr being what dlopen_cryptsetup() returned
cryptsetup_set_minimal_pbkdf(gr, pb, rb) ==
  IF gr < 0 THEN [ret |-> gr, pbkdf |-> pb, calls |-> <<>>]
  ELSE LET b == crypt_set_pbkdf_type(pb, minimal_pbkdf, rb)
           c == <<BackendCall("crypt_set_pbkdf_type", b.r, <<>>, minimal_pbkdf)>>
       IN IF b.r < 0 THEN [ret |-> b.r, pbkdf |-> b.pbkdf, calls |-> c]
          ELSE [ret |-> 0, pbkdf |-> b.pbkdf, calls |-> c]

\* compares the type only when the token's "type" is a string
cryptsetup_get_token_as_json_strings(gr, hs, toks, idx, verify_type, want) ==
  IF gr < 0 THEN [ret |-> gr, out |-> NULL, calls |-> <<>>]
  ELSE LET b == crypt_token_json_get(hs, toks, idx)
           c == <<BackendCall("crypt_token_json_get", b.r, <<>>, NoPbkdf)>>
           p == sd_json_parse(b.text)
           w == sd_json_variant_by_key(p.v, K_type)
       IN IF b.r < 0 THEN [ret |-> b.r, out |-> NULL, calls |-> c]
          ELSE IF p.r < 0 THEN [ret |-> p.r, out |-> NULL, calls |-> c]
          ELSE IF verify_type # NULLSTR /\ w = NULL
               THEN [ret |-> 0 - EINVAL, out |-> NULL, calls |-> c]
          ELSE IF verify_type # NULLSTR /\ sd_json_variant_is_string(w)
                  /\ ~streq_ptr(sd_json_variant_string(w), verify_type)
               THEN [ret |-> 0 - EMEDIUMTYPE, out |-> NULL, calls |-> c]
          ELSE [ret |-> 0, out |-> IF want THEN p.v ELSE NULL, calls |-> c]

\* cryptsetup_get_token_as_json(cd, idx, verify_type, ret); want says whether
\* ret is given
cryptsetup_get_token_as_json(gr, hs, toks, idx, verify_type, want) ==
  IF gr < 0 THEN [ret |-> gr, out |-> NULL, calls |-> <<>>]
  ELSE LET b == crypt_token_json_get(hs, toks, idx)
           c == <<BackendCall("crypt_token_json_get", b.r, <<>>, NoPbkdf)>>
           p == sd_json_parse(b.text)
           w == sd_json_variant_by_key(p.v, K_type)
       IN IF b.r < 0 THEN [ret |-> b.r, out |-> NULL, calls |-> c]
          ELSE IF p.r < 0 THEN [ret |-> p.r, out |-> NULL, calls |-> c]
          ELSE IF verify_type # NULLSTR /\ w = NULL
               THEN [ret |-> 0 - EINVAL, out |-> NULL, calls |-> c]
          ELSE IF verify_type # NULLSTR
                  /\ ~streq_ptr(sd_json_variant_string(w), verify_type)
               THEN [ret |-> 0 - EMEDIUMTYPE, out |-> NULL, calls |-> c]
          ELSE [ret |-> 0, out |-> IF want THEN p.v ELSE NULL, calls |-> c]

\* goes on to the library although dlopen_cryptsetup() failed
cryptsetup_add_token_json_ungated(gr, hs, toks, v, oom, accept) ==
  LET f == sd_json_variant_format(v, oom)
      b == crypt_token_json_set(hs, toks, f.text, accept)
      c == <<BackendCall("crypt_token_json_set", b.r, f.text, NoPbkdf)>>
  IN IF f.r < 0 THEN [ret |-> f.r, tokens |-> toks, calls |-> <<>>]
     ELSE IF b.r < 0 THEN [ret |-> b.r, tokens |-> b.tokens, calls |-> c]
     ELSE [ret |-> 0, tokens |-> b.tokens, calls |-> c]

\* hands the text to the library before looking at what formatting returned
cryptsetup_add_token_json_unchecked(gr, hs, toks, v, oom, accept) ==
  IF gr < 0 THEN [ret |-> gr, tokens |-> toks, calls |-> <<>>]
  ELSE LET f == sd_json_variant_format(v, oom)
           b == crypt_token_json_set(hs, toks, f.text, accept)
           c == <<BackendCall("crypt_token_json_set", b.r, f.text, NoPbkdf)>>
       IN IF b.r < 0 THEN [ret |-> b.r, tokens |-> b.tokens, calls |-> c]
          ELSE IF f.r < 0 THEN [ret |-> f.r, tokens |-> b.tokens, calls |-> c]
          ELSE [ret |-> 0, tokens |-> b.tokens, calls |-> c]

\* hands the library the text short of its last character
cryptsetup_add_token_json_short(gr, hs, toks, v, oom, accept) ==
  IF gr < 0 THEN [ret |-> gr, tokens |-> toks, calls |-> <<>>]
  ELSE LET f == sd_json_variant_format(v, oom)
           t == SubSeq(f.text, 1, Len(f.text) - 1)
           b == crypt_token_json_set(hs, toks, t, accept)
           c == <<BackendCall("crypt_token_json_set", b.r, t, NoPbkdf)>>
       IN IF f.r < 0 THEN [ret |-> f.r, tokens |-> toks, calls |-> <<>>]
          ELSE IF b.r < 0 THEN [ret |-> b.r, tokens |-> b.tokens, calls |-> c]
          ELSE [ret |-> 0, tokens |-> b.tokens, calls |-> c]

\* cryptsetup_add_token_json(cd, v)
cryptsetup_add_token_json(gr, hs, toks, v, oom, accept) ==
  IF gr < 0 THEN [ret |-> gr, tokens |-> toks, calls |-> <<>>]
  ELSE LET f == sd_json_variant_format(v, oom)
           b == crypt_token_json_set(hs, toks, f.text, accept)
           c == <<BackendCall("crypt_token_json_set", b.r, f.text, NoPbkdf)>>
       IN IF f.r < 0 THEN [ret |-> f.r, tokens |-> toks, calls |-> <<>>]
          ELSE IF b.r < 0 THEN [ret |-> b.r, tokens |-> b.tokens, calls |-> c]
          ELSE [ret |-> 0, tokens |-> b.tokens, calls |-> c]

(* ------------------------------------------------------------------ *)
(* the program: one action per function called as a whole              *)
(* ------------------------------------------------------------------ *)
NoLogging == [dflt |-> "none", cd |-> "none", level |-> "CRYPT_DEBUG_NONE"]

Init ==
  /\ cryptsetup_dl = "NULL"
  /\ dl_error = 0
  /\ attempts = 0
  /\ gateCalls = 0
  /\ firstFail = 0
  /\ DEBUG_LOGGING = FALSE
  /\ logging = NoLogging
  /\ hstate = "unbound"
  /\ tokens \in [TokenIndices -> HeaderTexts]
  /\ pbkdf = NoPbkdf
  /\ last = NoCall
  /\ stack = <<>>

\* a caller may call dlopen_cryptsetup() (within the bound on the calls made
\* while nothing is loaded)
GateEnabled == cryptsetup_dl # "NULL" \/ gateCalls < MaxGateCalls

\* what a call g of dlopen_cryptsetup() leaves in the process
GateDone(g) ==
  /\ cryptsetup_dl' = g.dl
  /\ dl_error' = g.err
  /\ attempts' = attempts + (IF g.tried THEN 1 ELSE 0)
  /\ gateCalls' = gateCalls + (IF cryptsetup_dl = "NULL" THEN 1 ELSE 0)
  /\ firstFail' = IF firstFail = 0 /\ g.r < 0 THEN g.r ELSE firstFail

\* the outcomes a resolution attempt can have where one is made
LoadChoices ==
  IF dlopen_many_sym_or_warn(cryptsetup_dl, dl_error, 1).tried
  THEN LoadOutcomes ELSE {1}

Gate(outcome) ==
  dlopen_cryptsetup(cryptsetup_dl, dl_error, logging, DEBUG_LOGGING, outcome)

DlopenCryptsetup ==
  /\ GateEnabled
  /\ \E outcome \in LoadChoices :
       LET g == Gate(outcome)
       IN /\ GateDone(g)
          /\ logging' = g.logging
          /\ last' = [NoCall EXCEPT !.op = "dlopen_cryptsetup", !.gated = TRUE,
                                    !.gate = g.r, !.ret = g.r]
  /\ UNCHANGED <<DEBUG_LOGGING, hstate, tokens, pbkdf, stack>>

EnableLogging ==
  /\ GateEnabled
  /\ \E outcome \in LoadChoices, cd \in {"NULL", "cd"} :
       LET g == Gate(outcome)
       IN /\ GateDone(g)
          /\ logging' = cryptsetup_enable_logging(g, cd, DEBUG_LOGGING)
          /\ last' = [NoCall EXCEPT !.op = "cryptsetup_enable_logging",
                                    !.gated = TRUE, !.gate = g.r, !.cd = cd]
  /\ UNCHANGED <<DEBUG_LOGGING, hstate, tokens, pbkdf, stack>>

SetMinimalPbkdf ==
  /\ GateEnabled
  /\ \E outcome \in LoadChoices, rb \in PbkdfResults :
       LET g == Gate(outcome)
           f == cryptsetup_set_minimal_pbkdf(g.r, pbkdf, rb)
       IN /\ GateDone(g)
          /\ logging' = g.logging
          /\ pbkdf' = f.pbkdf
          /\ last' = [NoCall EXCEPT !.op = "cryptsetup_set_minimal_pbkdf",
                                    !.gated = TRUE, !.gate = g.r, !.cd = "cd",
                                    !.ret = f.ret, !.calls = f.calls]
  /\ UNCHANGED <<DEBUG_LOGGING, hstate, tokens, stack>>

GetTokenAsJson ==
  /\ GateEnabled
  /\ \E outcome \in LoadChoices, idx \in (0 - 1)..TokenMax,
        verify_type \in VerifyTypes, want \in BOOLEAN :
       LET g == Gate(outcome)
           f == cryptsetup_get_token_as_json(g.r, hstate, tokens, idx,
                                             verify_type, want)
       IN /\ GateDone(g)
          /\ logging' = g.logging
          /\ last' = [NoCall EXCEPT !.op = "cryptsetup_get_token_as_json",
                                    !.gated = TRUE, !.gate = g.r, !.cd = "cd",
                                    !.idx = idx, !.verify_type = verify_type,
                                    !.want = want, !.ret = f.ret, !.out = f.out,
                                    !.calls = f.calls]
  /\ UNCHANGED <<DEBUG_LOGGING, hstate, tokens, pbkdf, stack>>

AddTokenJson ==
  /\ GateEnabled
  /\ \E outcome \in LoadChoices, v \in TokenValues, oom \in BOOLEAN,
        accept \in BOOLEAN :
       LET g == Gate(outcome)
           f == cryptsetup_add_token_json(g.r, hstate, tokens, v, oom, accept)
       IN /\ GateDone(g)
          /\ logging' = g.logging
          /\ tokens' = f.tokens
          /\ last' = [NoCall EXCEPT !.op = "cryptsetup_add_token_json",
                                    !.gated = TRUE, !.gate = g.r, !.cd = "cd",
                                    !.v = v, !.oom = oom, !.ret = f.ret,
                                    !.calls = f.calls]
  /\ UNCHANGED <<DEBUG_LOGGING, hstate, pbkdf, stack>>

\* a caller binds the crypt_device to the device's header (sym_crypt_load),
\* which takes the library
CryptLoad ==
  /\ cryptsetup_dl # "NULL"
  /\ hstate = "unbound"
  /\ hstate' = "bound"
  /\ last' = [NoCall EXCEPT !.op = "crypt_load", !.cd = "cd"]
  /\ UNCHANGED <<cryptsetup_dl, dl_error, attempts, gateCalls, firstFail,
                 DEBUG_LOGGING, logging, tokens, pbkdf, stack>>

Next ==
  \/ DlopenCryptsetup
  \/ EnableLogging
  \/ SetMinimalPbkdf
  \/ GetTokenAsJson
  \/ AddTokenJson
  \/ CryptLoad

Spec == Init /\ [][Next]_vars

(* ------------------------------------------------------------------ *)
(* cryptsetup_get_keyslot_from_token applied to a token                *)
(* ------------------------------------------------------------------ *)
KeyslotInit ==
  /\ cryptsetup_dl = "NULL"
  /\ dl_error = 0
  /\ attempts = 0
  /\ gateCalls = 0
  /\ firstFail = 0
  /\ DEBUG_LOGGING = FALSE
  /\ logging = NoLogging
  /\ hstate = "unbound"
  /\ tokens = [i \in TokenIndices |-> NoToken]
  /\ pbkdf = NoPbkdf
  /\ \E v \in KeyslotValues : last = [NoCall EXCEPT !.v = v]
  /\ stack = <<>>

GetKeyslotFromToken ==
  /\ last.op = "none"
  /\ last' = [last EXCEPT !.op = "cryptsetup_get_keyslot_from_token",
                          !.ret = cryptsetup_get_keyslot_from_token(last.v)]
  /\ UNCHANGED <<cryptsetup_dl, dl_error, attempts, gateCalls, firstFail,
                 DEBUG_LOGGING, logging, hstate, tokens, pbkdf, stack>>

KeyslotNext == GetKeyslotFromToken

KeyslotSpec == KeyslotInit /\ [][KeyslotNext]_vars

(* ------------------------------------------------------------------ *)
(* dlopen_cryptsetup() and cryptsetup_enable_logging() step by step:   *)
(* each calls the other, so their calls are frames of a call stack     *)
(* ------------------------------------------------------------------ *)
Frame(fn, cd) == [fn |-> fn, pc |-> "entry", cd |-> cd, r |-> 0]

Top == stack[Len(stack)]
SetTop(f) == [stack EXCEPT ![Len(stack)] = f]

\* the stack once its top frame has returned r: the caller, if any, goes on
\* from its call
Return(r) ==
  LET rest == SubSeq(stack, 1, Len(stack) - 1)
  IN IF rest = <<>> THEN rest
     ELSE [rest EXCEPT ![Len(rest)] =
             IF @.fn = "dlopen_cryptsetup"
             THEN [@ EXCEPT !.pc = "return", !.r = 1]
             ELSE [@ EXCEPT !.pc = "check", !.r = r]]

\* the calls made since the caller's call, in order
Entered(fn) == BackendCall(fn, Len(stack), <<>>, NoPbkdf)

RecInit ==
  /\ cryptsetup_dl = "NULL"
  /\ dl_error = 0
  /\ attempts = 0
  /\ gateCalls = 0
  /\ firstFail = 0
  /\ DEBUG_LOGGING \in BOOLEAN
  /\ logging = NoLogging
  /\ hstate = "unbound"
  /\ tokens = [i \in TokenIndices |-> NoToken]
  /\ pbkdf = NoPbkdf
  /\ last = NoCall
  /\ stack = <<>>

\* a caller calls dlopen_cryptsetup()
CallDlopenCryptsetup ==
  /\ stack = <<>>
  /\ GateEnabled
  /\ stack' = <<Frame("dlopen_cryptsetup", "NULL")>>
  /\ last' = [NoCall EXCEPT !.op = "dlopen_cryptsetup", !.gated = TRUE,
                            !.calls = <<Entered("dlopen_cryptsetup")>>]
  /\ UNCHANGED <<cryptsetup_dl, dl_error, attempts, gateCalls, firstFail,
                 DEBUG_LOGGING, logging, hstate, tokens, pbkdf>>

\* a caller calls cryptsetup_enable_logging(cd)
CallEnableLogging ==
  /\ stack = <<>>
  /\ GateEnabled
  /\ \E cd \in {"NULL", "cd"} :
       /\ stack' = <<Frame("cryptsetup_enable_logging", cd)>>
       /\ last' = [NoCall EXCEPT !.op = "cryptsetup_enable_logging",
                                 !.gated = TRUE, !.cd = cd,
                                 !.calls = <<Entered("cryptsetup_enable_logging")>>]
  /\ UNCHANGED <<cryptsetup_dl, dl_error, attempts, gateCalls, firstFail,
                 DEBUG_LOGGING, logging, hstate, tokens, pbkdf>>

\* dlopen_cryptsetup(): r = dlopen_many_sym_or_warn(&cryptsetup_dl, ...)
DlopenResolve ==
  /\ stack # <<>>
  /\ Top.fn = "dlopen_cryptsetup" /\ Top.pc = "entry"
  /\ \E outcome \in LoadChoices :
       LET l == dlopen_many_sym_or_warn(cryptsetup_dl, dl_error, outcome)
       IN /\ cryptsetup_dl' = l.dl
          /\ dl_error' = l.err
          /\ attempts' = attempts + (IF l.tried THEN 1 ELSE 0)
          /\ gateCalls' = gateCalls + (IF cryptsetup_dl = "NULL" THEN 1 ELSE 0)
          /\ firstFail' = IF firstFail = 0 /\ l.r < 0 THEN l.r ELSE firstFail
          /\ stack' = SetTop([Top EXCEPT !.pc = "check", !.r = l.r])
  /\ UNCHANGED <<DEBUG_LOGGING, logging, hstate, tokens, pbkdf, last>>

\* returns early on failure only: if (r < 0) return r;
DlopenCheck_failure_only ==
  /\ stack # <<>>
  /\ Top.fn = "dlopen_cryptsetup" /\ Top.pc = "check"
  /\ IF Top.r < 0
     THEN /\ stack' = SetTop([Top EXCEPT !.pc = "return"])
          /\ last' = last
     ELSE /\ Len(stack) < MaxDepth
          /\ stack' = Append(SetTop([Top EXCEPT !.pc = "logging"]),
                             Frame("cryptsetup_enable_logging", "NULL"))
          /\ last' = [last EXCEPT
                        !.calls = Append(@, Entered("cryptsetup_enable_logging"))]
  /\ UNCHANGED <<cryptsetup_dl, dl_error, attempts, gateCalls, firstFail,
                 DEBUG_LOGGING, logging, hstate, tokens, pbkdf>>

\* dlopen_cryptsetup(): if (r <= 0) return r; cryptsetup_enable_logging(NULL);
DlopenCheck ==
  /\ stack # <<>>
  /\ Top.fn = "dlopen_cryptsetup" /\ Top.pc = "check"
  /\ IF Top.r <= 0
     THEN /\ stack' = SetTop([Top EXCEPT !.pc = "return"])
          /\ last' = last
     ELSE /\ Len(stack) < MaxDepth
          /\ stack' = Append(SetTop([Top EXCEPT !.pc = "logging"]),
                             Frame("cryptsetup_enable_logging", "NULL"))
          /\ last' = [last EXCEPT
                        !.calls = Append(@, Entered("cryptsetup_enable_logging"))]
  /\ UNCHANGED <<cryptsetup_dl, dl_error, attempts, gateCalls, firstFail,
                 DEBUG_LOGGING, logging, hstate, tokens, pbkdf>>

\* dlopen_cryptsetup() returns r (or 1 after the logging call)
DlopenReturn ==
  /\ stack # <<>>
  /\ Top.fn = "dlopen_cryptsetup" /\ Top.pc = "return"
  /\ stack' = Return(Top.r)
  /\ last' = IF Len(stack) = 1 THEN [last EXCEPT !.gate = Top.r, !.ret = Top.r]
             ELSE last
  /\ UNCHANGED <<cryptsetup_dl, dl_error, attempts, gateCalls, firstFail,
                 DEBUG_LOGGING, logging, hstate, tokens, pbkdf>>

\* cryptsetup_enable_logging(): the call in if (dlopen_cryptsetup() < 0)
EnableLoggingCall ==
  /\ stack # <<>>
  /\ Top.fn = "cryptsetup_enable_logging" /\ Top.pc = "entry"
  /\ Len(stack) < MaxDepth
  /\ stack' = Append(SetTop([Top EXCEPT !.pc = "dlopen"]),
                     Frame("dlopen_cryptsetup", "NULL"))
  /\ last' = [last EXCEPT !.calls = Append(@, Entered("dlopen_cryptsetup"))]
  /\ UNCHANGED <<cryptsetup_dl, dl_error, attempts, gateCalls, firstFail,
                 DEBUG_LOGGING, logging, hstate, tokens, pbkdf>>

\* cryptsetup_enable_logging(): return if the call failed, else set the log
\* callback and the debug level, and return
EnableLoggingCheck ==
  /\ stack # <<>>
  /\ Top.fn = "cryptsetup_enable_logging" /\ Top.pc = "check"
  /\ logging' = IF Top.r < 0 THEN logging
                ELSE crypt_set_debug_level(crypt_set_log_callback(logging, Top.cd),
                                           CRYPT_DEBUG_LEVEL(DEBUG_LOGGING))
  /\ stack' = Return(0)
  /\ last' = IF Len(stack) = 1 THEN [last EXCEPT !.gate = Top.r] ELSE last
  /\ UNCHANGED <<cryptsetup_dl, dl_error, attempts, gateCalls, firstFail,
                 DEBUG_LOGGING, hstate, tokens, pbkdf>>

\* the steps of a call under way
RecStep ==
  \/ DlopenResolve
  \/ DlopenCheck
  \/ DlopenReturn
  \/ EnableLoggingCall
  \/ EnableLoggingCheck

RecNext ==
  \/ CallDlopenCryptsetup
  \/ CallEnableLogging
  \/ RecStep

RecSpec == RecInit /\ [][RecNext]_vars

\* a call under way takes its next step: the code runs on
FairRecSpec == RecSpec /\ WF_vars(RecStep)

(* ------------------------------------------------------------------ *)
(* properties                                                          *)
(* ------------------------------------------------------------------ *)
TokenOps ==
  {"cryptsetup_set_minimal_pbkdf", "cryptsetup_get_token_as_json",
   "cryptsetup_add_token_json"}

\* what the library returned to the last call's first library call
LibReturned == last.calls[1].r

\* the parse of the text the header holds at the index the last call named
StoredAtIdx == sd_json_parse(tokens[last.idx])

\* the last call was a cryptsetup_get_token_as_json() that found a token at
\* its index whose text is JSON
GotToken ==
  /\ last.op = "cryptsetup_get_token_as_json"
  /\ last.gate >= 0
  /\ last.calls # <<>>
  /\ LibReturned >= 0
  /\ StoredAtIdx.r = 0

C2_GateFailureAborts ==
  [][(last'.op \in TokenOps /\ last'.gate < 0) =>
       /\ last'.ret = last'.gate
       /\ last'.calls = <<>>
       /\ last'.out = NULL
       /\ tokens' = tokens
       /\ pbkdf' = pbkdf
       /\ hstate' = hstate
       /\ logging' = logging]_vars

C2_Witness ==
  /\ last.op = "cryptsetup_add_token_json"
  /\ last.gate = 0 - EOPNOTSUPP
  /\ last.ret = 0 - EOPNOTSUPP
  /\ ~last.oom

\* C3: get_token_as_json fails with -EINVAL and gives no value whenever the
\* object stored at the index has no "type" field, whatever verify_type is,
\* NULL included.
C3_MissingTypeIsInvalid ==
  (GotToken /\ sd_json_variant_by_key(StoredAtIdx.v, K_type) = NULL) =>
    /\ last.ret = 0 - EINVAL
    /\ last.out = NULL

\* C4: for a stored token with a "type" field and a verify_type given,
\* get_token_as_json returns 0 and the parsed token exactly when the stored
\* type is a string equal to verify_type, and -EMEDIUMTYPE and no value
\* otherwise (a type that is no string included).
C4_TypeVerified ==
  LET w == sd_json_variant_by_key(StoredAtIdx.v, K_type)
  IN (GotToken /\ w # NULL /\ last.verify_type # NULLSTR) =>
       IF w.k = "string" /\ w.s = last.verify_type
       THEN /\ last.ret = 0
            /\ last.out = IF last.want THEN StoredAtIdx.v ELSE NULL
       ELSE /\ last.ret = 0 - EMEDIUMTYPE
            /\ last.out = NULL

C4_Witness ==
  /\ GotToken
  /\ last.verify_type = T_foo
  /\ last.ret = 0
  /\ last.out = Token(JStr(T_foo), JArr(<<JStr(<<"3">>)>>))

RECURSIVE StripZeros(_)
StripZeros(d) ==
  IF d # <<>> /\ Head(d) = "0" THEN StripZeros(Tail(d)) ELSE d

RECURSIVE Pow10(_)
Pow10(n) == IF n = 0 THEN 1 ELSE 10 * Pow10(n - 1)

RECURSIVE PositionalValue(_, _)
\* the number the digits d[i..] denote: each digit times its power of ten
PositionalValue(d, i) ==
  IF i > Len(d) THEN 0
  ELSE DigitVal(d[i]) * Pow10(Len(d) - i) + PositionalValue(d, i + 1)

\* the decimal digits d, without leading zeros, denote more than the digits m
ExceedsDigits(d, m) ==
  \/ Len(d) > Len(m)
  \/ /\ Len(d) = Len(m)
     /\ \E i \in 1..Len(d) :
          /\ \A j \in 1..(i - 1) : d[j] = m[j]
          /\ DigitVal(d[i]) > DigitVal(m[i])

\* the keyslot a string denotes: -EINVAL unless it is a decimal integer,
\* -ERANGE if that is no int, -EINVAL if it is negative
KeyslotOfString(s) ==
  LET signed == s # <<>> /\ Head(s) \in {"-", "+"}
      neg == signed /\ Head(s) = "-"
      body == IF signed THEN Tail(s) ELSE s
      d == StripZeros(body)
      most == IF neg THEN <<"2", "1", "4", "7", "4", "8", "3", "6", "4", "8">>
              ELSE <<"2", "1", "4", "7", "4", "8", "3", "6", "4", "7">>
  IN IF body = <<>> \/ \E i \in 1..Len(body) : body[i] \notin Digits
     THEN 0 - EINVAL
     ELSE IF ExceedsDigits(d, most) THEN 0 - ERANGE
     ELSE IF neg /\ d # <<>> THEN 0 - EINVAL
     ELSE PositionalValue(d, 1)

\* the reference: -ENOENT without "keyslots", -EMEDIUMTYPE unless it is an
\* array of exactly one string, else what the string denotes
KeyslotReference(v) ==
  LET at == IF v.k # "object" THEN {}
            ELSE {i \in 1..Len(v.e) : i % 2 = 1 /\ v.e[i] = JStr(K_keyslots)}
  IN IF at = {} THEN 0 - ENOENT
     ELSE LET ks == v.e[(CHOOSE i \in at : \A j \in at : i <= j) + 1]
          IN IF ks.k # "array" THEN 0 - EMEDIUMTYPE
             ELSE IF Len(ks.e) # 1 THEN 0 - EMEDIUMTYPE
             ELSE IF ks.e[1].k # "string" THEN 0 - EMEDIUMTYPE
             ELSE KeyslotOfString(ks.e[1].s)

\* C5: cryptsetup_get_keyslot_from_token agrees with the reference on every
\* token: a token with several keyslots is refused, not cut to its first.
C5_KeyslotAgrees ==
  last.op = "cryptsetup_get_keyslot_from_token" =>
    last.ret = KeyslotReference(last.v)

C5_Witness ==
  /\ last.op = "cryptsetup_get_keyslot_from_token"
  /\ last.v = Token(JStr(T_foo), JArr(<<JStr(<<"3">>), JStr(<<"4">>)>>))
  /\ last.ret = 0 - EMEDIUMTYPE

\* the last call was a cryptsetup_add_token_json() that succeeded
AddedToken ==
  /\ last.op = "cryptsetup_add_token_json"
  /\ last.ret >= 0
  /\ last.calls # <<>>

\* cryptsetup_get_token_as_json(cd, idx, NULL, &v) called now
GetNow(idx) ==
  cryptsetup_get_token_as_json(0, hstate, tokens, idx, NULLSTR, TRUE)

\* C6 as claimed: after a successful add_token_json(v), get_token_as_json at
\* the index add_token_json returned gives a value equal to v.
C6_RoundTripAtReturned ==
  AddedToken => (GetNow(last.ret).ret = 0 /\ GetNow(last.ret).out = last.v)

\* C6 as amended: after a successful add_token_json(v), which returns 0,
\* get_token_as_json at the index the library stored the token at (what
\* crypt_token_json_set returned) gives a value equal to v.
C6_RoundTripAtAllocated ==
  AddedToken =>
    /\ last.ret = 0
    /\ GetNow(LibReturned).ret = 0
    /\ GetNow(LibReturned).out = last.v

C6_Witness ==
  /\ AddedToken
  /\ LibReturned = 1
  /\ tokens[0] # tokens[1]
  /\ GetNow(1).out = last.v

\* C7: an add_token_json that fails leaves every token of the header as it
\* was; a failed formatting returns before any library call; and a slot
\* holds after the call what it held before or the whole text of v.
C7_FailedAddLeavesTokens ==
  [][last'.op = "cryptsetup_add_token_json" =>
       /\ last'.ret < 0 => tokens' = tokens
       /\ last'.oom => last'.calls = <<>>
       /\ \A i \in TokenIndices :
            tokens'[i] = tokens[i] \/ tokens'[i] = FormatValue(last'.v)]_vars

C7_Witness ==
  /\ last.op = "cryptsetup_add_token_json"
  /\ hstate = "bound"
  /\ last.gate >= 0
  /\ last.oom
  /\ last.ret = 0 - ENOMEM
  /\ \E i \in TokenIndices : tokens[i] = NoToken

\* C9: set_minimal_pbkdf hands the library the same policy on every call:
\* sha512, PBKDF2, 1000 iterations, no benchmark; it returns 0, or what the
\* library or dlopen_cryptsetup() returned as failure.
C9_MinimalPbkdf ==
  last.op = "cryptsetup_set_minimal_pbkdf" =>
    IF last.gate < 0 THEN last.ret = last.gate /\ last.calls = <<>>
    ELSE /\ Len(last.calls) = 1
         /\ last.calls[1].fn = "crypt_set_pbkdf_type"
         /\ last.calls[1].pbkdf =
              [hash |-> "sha512", type |-> "pbkdf2", iterations |-> 1000,
               flags |-> {"CRYPT_PBKDF_NO_BENCHMARK"}]
         /\ last.ret = IF LibReturned < 0 THEN LibReturned ELSE 0
         /\ LibReturned >= 0 => pbkdf = last.calls[1].pbkdf

C9_Witness ==
  /\ last.op = "cryptsetup_set_minimal_pbkdf"
  /\ hstate = "bound"
  /\ \E i \in TokenIndices : tokens[i] \notin HeaderTexts
  /\ LibReturned = 1
  /\ last.ret = 0
  /\ pbkdf.iterations = 1000

FramesOf(fn) == {i \in DOMAIN stack : stack[i].fn = fn}
EnteredOf(fn) == {i \in DOMAIN last.calls : last.calls[i].fn = fn}

\* each function is entered at most twice within one call, the load that
\* calls cryptsetup_enable_logging() is one that resolved the library just
\* now (r = 1), and the dlopen_cryptsetup() called from there returns 0
\* without a further call
RecursionBounded ==
  /\ Cardinality(FramesOf("dlopen_cryptsetup")) <= 2
  /\ Cardinality(FramesOf("cryptsetup_enable_logging")) <= 2
  /\ Cardinality(EnteredOf("dlopen_cryptsetup")) <= 2
  /\ Cardinality(EnteredOf("cryptsetup_enable_logging")) <= 2
  /\ \A i \in FramesOf("dlopen_cryptsetup") :
       /\ stack[i].pc = "logging" =>
            /\ stack[i].r = 1
            /\ cryptsetup_dl # "NULL"
       /\ \A j \in FramesOf("dlopen_cryptsetup") :
            (j < i /\ stack[i].pc # "entry") =>
              /\ stack[j].pc = "logging"
              /\ stack[i].pc \in {"check", "return"}
              /\ stack[i].r = 0

\* C10: the recursion between dlopen_cryptsetup() and
\* cryptsetup_enable_logging() ends: every call returns, having nested at
\* most one further call of each; the inner dlopen_cryptsetup() of a first
\* load returns without calling cryptsetup_enable_logging() again, and a
\* failed load never calls it.
C10_RecursionEnds ==
  /\ []RecursionBounded
  /\ (stack # <<>>) ~> (stack = <<>>)

C10_Witness ==
  /\ stack = <<>>
  /\ last.op = "cryptsetup_enable_logging"
  /\ last.cd = "cd"
  /\ Len(last.calls) = 4
  /\ logging.dflt = "cryptsetup_log_glue"
  /\ logging.cd = "cryptsetup_log_glue"

====
